---- MODULE Spec2Model ----
(***************************************************************************)
(* VirtualContent (src/src/main.ts): chunked rendering of large text or    *)
(* markup inside a scrollable container.  The module models one instance:  *)
(* its content sequence, geometry cache, window state and the DOM state    *)
(* the engine reads back (scroll position, attachment, fillers, layout);   *)
(* the static instance tracker with the other instances it registers; and  *)
(* the throttle (src/src/virtual_content.js) wrapped around onScroll.      *)
(*                                                                         *)
(* Strings are sequences of one-character strings.  JavaScript arrays are  *)
(* sequences addressed by 0-based index through ArrGet/ArrSet; a hole or   *)
(* an index past the end reads as Undef.                                   *)
(***************************************************************************)
EXTENDS Integers, Sequences, FiniteSets, TLC

(* ------------------------------ bounds --------------------------------- *)
\* longest content string handed to the splitter probes
MaxStrLen == 6
\* largest chunk length handed to the splitter probes
MaxProbeChunkLen == 3
\* largest chunk count handed to the range probe
MaxProbeChunks == 10
\* largest threshold handed to the range probe
MaxProbeThreshold == 3
\* longest content string set on the instance
MaxContentLen == 5
\* largest threshold the instance is constructed with
MaxThreshold == 2
\* largest scroll position the environment produces
MaxScroll == 3
\* instances created besides the one modelled in full
MaxInstances == 3
\* largest throttle interval (options.scrollEventThrottle), in clock ticks
MaxDelay == 2
\* clock ticks that pass after construction
MaxElapsed == 5
\* largest chunk count handed to the cumulative-offset probe
MaxCachedChunks == 3

(* --------------------------- program constants ------------------------- *)
REPLACE_MODE == "replace"
APPEND_MODE == "append"
HTML_TYPE == "html"
TEXT_TYPE == "text"
ONSCROLL_TIMEOUT == 100
CHUNK_PREPROCESSOR == "null"

(* ----------------------- JavaScript value helpers ---------------------- *)
\* undefined (an array hole, or a read past the end of an array)
Undef == -1

Min(a, b) == IF a < b THEN a ELSE b
Max(a, b) == IF a > b THEN a ELSE b
Abs(a) == IF a < 0 THEN -a ELSE a

\* Math.ceil(a / b) for a >= 0, b > 0
CeilDiv(a, b) == (a + b - 1) \div b

\* !v for a number or undefined
Falsy(v) == v = Undef \/ v = 0

\* arr[i]
ArrGet(arr, i) == IF i >= 0 /\ i < Len(arr) THEN arr[i + 1] ELSE Undef

\* arr[i] = v  (extends the array with holes when i is past the end)
ArrSet(arr, i, v) ==
  IF i < Len(arr)
    THEN [arr EXCEPT ![i + 1] = v]
    ELSE [k \in 1..(i + 1) |-> IF k <= Len(arr) THEN arr[k]
                               ELSE IF k = i + 1 THEN v ELSE Undef]

\* s.slice(from, to) / s.substring(from, to) for 0 <= from, with to clamped
Slice(s, from, to) ==
  IF from >= Min(to, Len(s)) THEN << >> ELSE SubSeq(s, from + 1, Min(to, Len(s)))

\* s.slice(from)
SliceFrom(s, from) == Slice(s, from, Len(s))

\* s.lastIndexOf(c): 0-based index of the last occurrence, -1 when absent
lastIndexOf(s, c) ==
  LET hits == {k \in 1..Len(s) : s[k] = c}
  IN IF hits = {} THEN -1 ELSE (CHOOSE k \in hits : \A j \in hits : j <= k) - 1

\* arr.indexOf(v) === -1
NotIn(arr, v) == \A k \in 1..Len(arr) : arr[k] # v

\* arr.reduce((r, v) => r + v, 0): holes are skipped
RECURSIVE SumDefined(_)
SumDefined(arr) ==
  IF arr = << >> THEN 0
  ELSE (IF Head(arr) = Undef THEN 0 ELSE Head(arr)) + SumDefined(Tail(arr))

\* in-order concatenation of a sequence of strings
RECURSIVE Concat(_)
Concat(cs) == IF cs = << >> THEN << >> ELSE Head(cs) \o Concat(Tail(cs))

(* ------------------------------ splitter ------------------------------- *)
\* splitString cutting each chunk one character too long
splitStringOverlap(str, chunkLength) ==
  [k \in 1..CeilDiv(Len(str), chunkLength) |->
     LET offset == (k - 1) * chunkLength
     IN Slice(str, offset, offset + chunkLength + 1)]

\* splitString returning one empty chunk for the empty string
splitStringAtLeastOne(str, chunkLength) ==
  [k \in 1..Max(1, CeilDiv(Len(str), chunkLength)) |->
     LET offset == (k - 1) * chunkLength
     IN Slice(str, offset, offset + chunkLength)]

\* splitString(str, chunkLength)
splitString(str, chunkLength) ==
  [k \in 1..CeilDiv(Len(str), chunkLength) |->
     LET offset == (k - 1) * chunkLength
     IN Slice(str, offset, offset + chunkLength)]

\* the repair step pulling the closing fragment back without removing it
\* from the following chunk
splitHtmlStepDuplicating(chunks, i) ==
  LET cur == chunks[i + 1]
      openTag == lastIndexOf(cur, "<")
      closeTag == lastIndexOf(cur, ">")
      unclosedTagFound == openTag > closeTag
      lastChunk == i + 2 > Len(chunks) \/ chunks[i + 2] = << >>
  IN IF ~unclosedTagFound \/ lastChunk THEN chunks
     ELSE LET nxt == chunks[i + 2]
              nextChunkCloseTag == lastIndexOf(nxt, ">") + 1
          IN IF nextChunkCloseTag > Len(cur) - openTag
               THEN [chunks EXCEPT ![i + 2] = SliceFrom(cur, openTag) \o nxt,
                                   ![i + 1] = Slice(cur, 0, openTag)]
               ELSE [chunks EXCEPT ![i + 1] = cur \o Slice(nxt, 0, nextChunkCloseTag)]

\* one iteration of the repair loop of splitHtml, for 0-based index i
splitHtmlStep(chunks, i) ==
  LET cur == chunks[i + 1]
      openTag == lastIndexOf(cur, "<")
      closeTag == lastIndexOf(cur, ">")
      unclosedTagFound == openTag > closeTag
      lastChunk == i + 2 > Len(chunks) \/ chunks[i + 2] = << >>
  IN IF ~unclosedTagFound \/ lastChunk THEN chunks
     ELSE LET nxt == chunks[i + 2]
              nextChunkCloseTag == lastIndexOf(nxt, ">") + 1
          IN IF nextChunkCloseTag > Len(cur) - openTag
               THEN [chunks EXCEPT ![i + 2] = SliceFrom(cur, openTag) \o nxt,
                                   ![i + 1] = Slice(cur, 0, openTag)]
               ELSE [chunks EXCEPT ![i + 1] = cur \o Slice(nxt, 0, nextChunkCloseTag),
                                   ![i + 2] = SliceFrom(nxt, nextChunkCloseTag)]

RECURSIVE splitHtmlLoop(_, _)
splitHtmlLoop(chunks, i) ==
  IF i >= Len(chunks) THEN chunks
  ELSE splitHtmlLoop(splitHtmlStep(chunks, i), i + 1)

\* splitHtml(str, chunkLength)
splitHtml(str, chunkLength) == splitHtmlLoop(splitString(str, chunkLength), 0)

(* ----------------------------- window policy --------------------------- *)
\* the range clamped without compensation at the edges
ChunkRangeUncompensated(pointer, max, threshold) ==
  <<Max(pointer - threshold, 0), Min(pointer + threshold, max)>>

\* getChunkRangeForReplacement(pointer) with max = chunks.length
ChunkRange(pointer, max, threshold) ==
  LET min == 0
      startOffset == pointer - threshold
      endOffset == pointer + threshold
  IN IF startOffset < min /\ endOffset > max THEN <<min, max>>
     ELSE LET endOffset1 == IF startOffset < min
                              THEN endOffset + Abs(min - startOffset)
                              ELSE endOffset
              startOffset1 == IF startOffset < min THEN min ELSE startOffset
              startOffset2 == IF endOffset1 > max
                                THEN startOffset1 - endOffset1 + max
                                ELSE startOffset1
              endOffset2 == IF endOffset1 > max THEN max ELSE endOffset1
          IN <<Max(startOffset2, min), Min(endOffset2, max)>>


(* -------------------------------- state -------------------------------- *)
VARIABLES
  mode,            \* this.mode
  threshold,       \* this.threshold
  chunkLength,     \* this.chunkLength
  contentType,     \* this.contentType
  chunks,          \* this.chunks
  heights,         \* this.heights
  offsets,         \* this.offsets
  leftPads,        \* this.leftPads
  pointer,         \* this.pointer
  visibleIndexes,  \* this.visibleIndexes
  lastWidth,       \* this.lastWidth (0 stands for null)
  attached,        \* this.el.parentNode is set
  listening,       \* the scroll listener is registered on scrollableEl
  scrollTop,       \* this.scrollableEl.scrollTop
  fillers,         \* heights of the filler divs currently in this.el
  elOffset,        \* static offset of this.el inside scrollableEl
  elWidth,         \* layout: chunks that fit on one line (this.el.offsetWidth)
  lineHeight,      \* layout: height of one line of chunks
  last,            \* history: the last operation called on the instance
  probe,           \* history: last pure-function probe (input and output)
  destroyed,       \* destroy() has run on the instance (its fields are null)
  trackInstances,  \* VirtualContent.trackInstances
  instances,       \* VirtualContent.instances, as a sequence of instance ids
  instanceTrackerTimer, \* VirtualContent._instanceTrackerTimer (0: undefined)
  intervals,       \* number of interval timers started by setInterval
  others,          \* the other instances: state and lastWidth of each
  track,           \* history: the last call of startTracking and its result
  renderDelay,     \* this.renderDelay, the wait of the throttled onScroll
  now,             \* Date.now()
  previous,        \* throttle: time of the last execution (0 before any)
  timeout,         \* throttle: deadline of the pending timer (Undef: null)
  args,            \* throttle: arguments of the last call (Undef: null)
  exec,            \* history: executions of the body of onScroll
  chunkPreProcessor \* this.chunkPreProcessor ("null", or "function")

vars == <<mode, threshold, chunkLength, contentType, chunks, heights, offsets,
          leftPads, pointer, visibleIndexes, lastWidth, attached, listening,
          scrollTop, fillers, elOffset, elWidth, lineHeight, last, probe,
          destroyed, trackInstances, instances, instanceTrackerTimer,
          intervals, others, track, renderDelay, now, previous, timeout,
          args, exec, chunkPreProcessor>>

config == <<mode, threshold, chunkLength, elOffset, chunkPreProcessor>>
cache == <<heights, offsets, leftPads>>
layout == <<elWidth, lineHeight>>
registry == <<trackInstances, instances, instanceTrackerTimer, intervals, others, track>>
throttled == <<renderDelay, now, previous, timeout, args, exec>>

(* ------------------------- argument validation ------------------------- *)
\* JavaScript values handed to setText / setHtml: t is the kind of value, s
\* the characters of a string, n the value of a finite number
StringValue(str) == [t |-> "string", s |-> str, n |-> 0]
NumberValue(num) == [t |-> "number", s |-> << >>, n |-> num]
OtherValue(kind) == [t |-> kind, s |-> << >>, n |-> 0]

\* typeof v === 'number'
TypeofNumber(v) == v.t \in {"number", "NaN", "Infinity"}

\* isNaN(v) for a value whose typeof is number
IsNaN(v) == v.t = "NaN"

\* !v for a value that is not a string
FalsyValue(v) ==
  \/ v.t \in {"NaN", "false", "null", "undefined"}
  \/ (v.t = "number" /\ v.n = 0)

\* the decimal digits of a natural number
RECURSIVE NatToString(_)
NatToString(num) ==
  LET digit == <<"0", "1", "2", "3", "4", "5", "6", "7", "8", "9">>[(num % 10) + 1]
  IN IF num < 10 THEN <<digit>> ELSE NatToString(num \div 10) \o <<digit>>

\* `${v}` for a value whose typeof is number and that is not NaN
NumberToString(v) ==
  IF v.t = "Infinity" THEN <<"I", "n", "f", "i", "n", "i", "t", "y">>
  ELSE IF v.n < 0 THEN <<"-">> \o NatToString(-v.n)
  ELSE NatToString(v.n)

\* validateString(str): the string it returns, or threw when it throws
\* TypeError('Not a string')
validateString(v) ==
  IF v.t = "string" THEN [threw |-> FALSE, str |-> v.s]
  ELSE IF TypeofNumber(v) /\ ~IsNaN(v) THEN [threw |-> FALSE, str |-> NumberToString(v)]
  ELSE IF FalsyValue(v) THEN [threw |-> FALSE, str |-> << >>]
  ELSE [threw |-> TRUE, str |-> << >>]

(* --------------------------- geometry cache ---------------------------- *)
\* getChunkHeight(i)
getChunkHeight(hs, i) == IF Falsy(ArrGet(hs, i)) THEN 0 ELSE ArrGet(hs, i)

\* getChunkLeftPad(chunkIndex)
getChunkLeftPad(lps, chunkIndex) ==
  IF Falsy(ArrGet(lps, chunkIndex)) THEN 0 ELSE ArrGet(lps, chunkIndex)

\* getChunkOffsetTop(chunkIndex)
getChunkOffsetTop(offs, chunkIndex) ==
  IF Falsy(ArrGet(offs, chunkIndex)) THEN 0 ELSE ArrGet(offs, chunkIndex)

\* getChunkOffsetTopByHeights(chunkIndex): the value it returns, or threw
\* when it throws Error('Bad chunk index')
getChunkOffsetTopByHeights(hs, chunkIndex) ==
  IF chunkIndex = 0 THEN [threw |-> FALSE, value |-> 0]
  ELSE IF chunkIndex > Len(hs) THEN [threw |-> TRUE, value |-> 0]
  ELSE IF Len(Slice(hs, 0, chunkIndex)) = 0 THEN [threw |-> FALSE, value |-> 0]
  ELSE [threw |-> FALSE, value |-> SumDefined(Slice(hs, 0, chunkIndex))]

\* the bottom filler summing the heights before chunkIndex instead
getBottomFillerHeightBefore(hs, n, chunkIndex) ==
  SumDefined(Slice(hs, 0, chunkIndex))

\* getBottomFillerHeightFor(chunkIndex)
getBottomFillerHeightFor(hs, n, chunkIndex) ==
  SumDefined(Slice(hs, chunkIndex, n))

\* storeChunkData(chunkIndex, extras) on the cache record g
storeChunkData(g, chunkIndex, extras) ==
  [offsets  |-> IF Falsy(ArrGet(g.offsets, chunkIndex))
                  THEN ArrSet(g.offsets, chunkIndex, extras.offsetTop)
                  ELSE g.offsets,
   heights  |-> IF Falsy(ArrGet(g.heights, chunkIndex))
                  THEN ArrSet(g.heights, chunkIndex, extras.offsetHeight)
                  ELSE g.heights,
   leftPads |-> IF Falsy(ArrGet(g.leftPads, chunkIndex))
                  THEN ArrSet(g.leftPads, chunkIndex, extras.leftPad)
                  ELSE g.leftPads]

(* ------------------------- layout (environment) ------------------------ *)
\* calculateChunkData(chunkEl) for the k-th (0-based) chunk element of a
\* replace-mode rebuild whose top filler is pre high: chunks are inline
\* blocks, w of them per line, every line h high; the start marker is the
\* first child of its chunk element, so its offsetLeft is 0.
calculateChunkData(k, pre, w, h) ==
  [leftPad      |-> 0,
   offsetHeight |-> h,
   offsetTop    |-> pre + (k \div w) * h]

\* chunkEl.offsetTop of chunk i appended in append mode (no fillers)
appendOffsetTop(i, w, h) == (i \div w) * h

(* --------------------------- pointer resolver -------------------------- *)
\* getScrollTopForChunks(): getScrollTop() - getOffsetToScrollableEl()
getScrollTopForChunks(st, off) == st - off

\* the scan falling through to offsets.length instead of offsets.length - 1
RECURSIVE pointerScanPastEnd(_, _, _)
pointerScanPastEnd(offs, pos, i) ==
  IF i >= Len(offs) THEN Len(offs)
  ELSE IF getChunkOffsetTop(offs, i) > pos THEN i - 1
  ELSE pointerScanPastEnd(offs, pos, i + 1)

\* the loop of getCurrentPointer from 0-based index i
RECURSIVE pointerScan(_, _, _)
pointerScan(offs, pos, i) ==
  IF i >= Len(offs) THEN Len(offs) - 1
  ELSE IF getChunkOffsetTop(offs, i) > pos THEN i - 1
  ELSE pointerScan(offs, pos, i + 1)

\* getCurrentPointer()
getCurrentPointer(offs, pos) == pointerScan(offs, pos, 0)

\* getLastVisible()
getLastVisible(vis) == IF Len(vis) > 0 THEN vis[Len(vis)] ELSE -1

(* ----------------------------- dirty check ----------------------------- *)
\* needUpdate(prevPointer, nextPointer)
needUpdate(m, t, n, vis, prevPointer, nextPointer) ==
  IF m = REPLACE_MODE
    THEN IF prevPointer = nextPointer THEN FALSE
         ELSE ChunkRange(prevPointer, n, t) # ChunkRange(nextPointer, n, t)
    ELSE \E i \in nextPointer..(Min(nextPointer + t, n) - 1) : NotIn(vis, i)

(* ----------------------------- materializer ---------------------------- *)
\* the append loop of updateContentWithAppend from index i up to last
RECURSIVE appendLoop(_, _, _, _, _)
appendLoop(d, i, lastIdx, w, h) ==
  IF i >= lastIdx THEN d
  ELSE appendLoop([d EXCEPT !.offsets = ArrSet(d.offsets, i, appendOffsetTop(i, w, h)),
                            !.visibleIndexes = Append(d.visibleIndexes, i)],
                  i + 1, lastIdx, w, h)

\* the append loop starting over at index 0 instead of after the last
\* visible chunk
updateContentWithAppendFromStart(d, t, prevPointer, ptr, w, h) ==
  LET lastIdx == Min(ptr + t, Len(d.chunks))
  IN appendLoop(d, 0, lastIdx, w, h)

\* updateContentWithAppend(prevPointer = 0, pointer = 0) on the instance
\* record d, under layout (w, h)
updateContentWithAppend(d, t, prevPointer, ptr, w, h) ==
  LET first == getLastVisible(d.visibleIndexes) + 1
      lastIdx == Min(ptr + t, Len(d.chunks))
  IN appendLoop(d, first, lastIdx, w, h)

\* the chunks.slice(startOffset, endOffset).map(...) of
\* updateContentWithReplace from the k-th element of the slice
RECURSIVE replaceLoop(_, _, _, _, _, _, _)
replaceLoop(d, startOffset, endOffset, k, pre, w, h) ==
  IF startOffset + k >= endOffset THEN d
  ELSE LET chunkIndex == startOffset + k
           g == storeChunkData([offsets |-> d.offsets, heights |-> d.heights,
                                leftPads |-> d.leftPads],
                               chunkIndex, calculateChunkData(k, pre, w, h))
       IN replaceLoop([d EXCEPT !.offsets = g.offsets,
                                !.heights = g.heights,
                                !.leftPads = g.leftPads,
                                !.visibleIndexes = Append(d.visibleIndexes, chunkIndex)],
                      startOffset, endOffset, k + 1, pre, w, h)

\* the rebuild without the this.visibleIndexes = [] that precedes the loop
updateContentWithReplaceKeepingVisible(d, t, prevPointer, ptr, w, h) ==
  LET range == ChunkRange(ptr, Len(d.chunks), t)
      preFillerHeight == getChunkOffsetTop(d.offsets, range[1])
      postFillerHeight == getBottomFillerHeightFor(d.heights, Len(d.chunks), range[2])
      built == replaceLoop(d, range[1], range[2], 0, preFillerHeight, w, h)
  IN [built EXCEPT !.fillers = <<preFillerHeight, postFillerHeight>>]

\* updateContentWithReplace(prevPointer = 0, pointer = 0) on the instance
\* record d, under layout (w, h)
updateContentWithReplace(d, t, prevPointer, ptr, w, h) ==
  LET range == ChunkRange(ptr, Len(d.chunks), t)
      preFillerHeight == getChunkOffsetTop(d.offsets, range[1])
      postFillerHeight == getBottomFillerHeightFor(d.heights, Len(d.chunks), range[2])
      cleared == [d EXCEPT !.visibleIndexes = << >>]
      built == replaceLoop(cleared, range[1], range[2], 0, preFillerHeight, w, h)
  IN [built EXCEPT !.fillers = <<preFillerHeight, postFillerHeight>>]

\* updateContent(): every caller invokes it without arguments, so both
\* parameters of the mode-specific method take their default, 0
updateContent(d, m, t, w, h) ==
  IF m = APPEND_MODE
    THEN updateContentWithAppend(d, t, 0, 0, w, h)
    ELSE updateContentWithReplace(d, t, 0, 0, w, h)

(* ------------------------------- inputs -------------------------------- *)
\* options.chunkSize the instance is constructed with
ChunkLengths == {1, 2}

\* layouts of the render surface: chunks that fit on one line
Widths == {1, 2}

\* layouts of the render surface: height of one line of chunks (0 while the
\* surface is not displayed)
LineHeights == {0, 1, 2}

\* static offset of the render surface inside its scrollable: 0 when the
\* surface is its own scrollable, 1 inside a scrollable ancestor
ElOffsets == {0, 1}

Alphabet == {"<", ">", "a"}

\* every string over Alphabet of length at most MaxStrLen
ProbeStrings == UNION {[1..n -> Alphabet] : n \in 0..MaxStrLen}

\* the splitting example of the documentation: "0123456789ab" by 5
ExampleString == <<"0", "1", "2", "3", "4", "5", "6", "7", "8", "9", "a", "b">>

\* plain text of every length up to MaxContentLen
TextContents == {[k \in 1..n |-> "a"] : n \in 0..MaxContentLen}

\* the plain text of length MaxContentLen
LongText == [k \in 1..MaxContentLen |-> "a"]

\* the empty markup and the markup a<a>a<a>... of length MaxContentLen
HtmlContents ==
  {[k \in 1..n |-> <<"a", "<", "a", ">">>[((k - 1) % 4) + 1]] : n \in {0, MaxContentLen}}

\* finite numbers handed to setText / setHtml
ArgNumbers == {0, 12, -3}

\* values handed to setText / setHtml: strings, finite numbers, and one
\* value of every other kind validateString tells apart
ArgValues ==
  {StringValue(str) : str \in {<< >>, <<"a">>, <<"a", "a", "a">>}}
    \cup {NumberValue(num) : num \in ArgNumbers}
    \cup {OtherValue(kind) : kind \in {"NaN", "Infinity", "true", "false",
                                        "null", "undefined", "object"}}

(* -------------------------------- Init --------------------------------- *)
\* the instance modelled in full, as an entry of VirtualContent.instances
SelfId == 0

\* Date.now() at construction, later than any throttle interval after 0
StartTime == MaxDelay + 1

\* constructor(options) with options.scrollEventThrottle || ONSCROLL_TIMEOUT
\* being delay and options.chunkPreProcessor || CHUNK_PREPROCESSOR being
\* preProcessor, in a page that has not called startTracking
Construct(delay, preProcessor) ==
  /\ chunkPreProcessor = preProcessor
  /\ mode \in {REPLACE_MODE, APPEND_MODE}
  /\ threshold \in 1..MaxThreshold
  /\ chunkLength \in ChunkLengths
  /\ contentType = HTML_TYPE
  /\ chunks = << >>
  /\ heights = << >>
  /\ offsets = << >>
  /\ leftPads = << >>
  /\ pointer = 0
  /\ visibleIndexes = << >>
  /\ lastWidth = 0
  /\ attached = FALSE
  /\ listening = TRUE
  /\ scrollTop = 0
  /\ fillers = << >>
  /\ elOffset \in ElOffsets
  /\ elWidth \in Widths
  /\ lineHeight \in LineHeights
  /\ last = [op |-> "create"]
  /\ probe = [fn |-> "none"]
  /\ destroyed = FALSE
  /\ trackInstances = FALSE
  /\ instances = << >>
  /\ instanceTrackerTimer = 0
  /\ intervals = 0
  /\ others = [id \in 1..MaxInstances |-> [state |-> "none", lastWidth |-> Undef]]
  /\ track = [op |-> "none"]
  /\ renderDelay = delay
  /\ now = StartTime
  /\ previous = 0
  /\ timeout = Undef
  /\ args = Undef
  /\ exec = [via |-> "none", at |-> Undef, arg |-> Undef, gap |-> Undef,
             notified |-> Undef, afterDestroy |-> FALSE]

\* constructor() with the default throttle interval
Init == Construct(ONSCROLL_TIMEOUT, CHUNK_PREPROCESSOR)

(* ------------------------------- actions ------------------------------- *)
\* the instance fields a rebuild reads and writes, as one record
Self == [chunks |-> chunks, offsets |-> offsets, heights |-> heights,
         leftPads |-> leftPads, visibleIndexes |-> visibleIndexes,
         fillers |-> fillers]

\* assign the record d back to the instance fields
Store(d) ==
  LET r == d
  IN /\ chunks' = r.chunks
     /\ offsets' = r.offsets
     /\ heights' = r.heights
     /\ leftPads' = r.leftPads
     /\ visibleIndexes' = r.visibleIndexes
     /\ fillers' = r.fillers

\* the field resets keeping the geometry recorded for the previous content
resetKeepingCache(newChunks) ==
  [chunks |-> newChunks, offsets |-> offsets, heights |-> heights,
   leftPads |-> leftPads, visibleIndexes |-> << >>, fillers |-> << >>]

\* the instance record after the field resets of setText / setHtml: the new
\* chunks, pointer 0 (set by setContent), empty caches and an emptied el
resetFor(newChunks) ==
  [chunks |-> newChunks, offsets |-> << >>, heights |-> << >>,
   leftPads |-> << >>, visibleIndexes |-> << >>, fillers |-> << >>]

\* the common tail of setText / setHtml once the argument v is validated to
\* the string str and the chunks are computed
setContent(v, str, newChunks, type, opName) ==
  /\ contentType' = type
  /\ pointer' = 0
  /\ scrollTop' = 0
  /\ Store(IF attached
             THEN updateContent(resetFor(newChunks), mode, threshold, elWidth, lineHeight)
             ELSE resetFor(newChunks))
  /\ last' = [op |-> opName, len |-> Len(str), arg |-> v.t, threw |-> FALSE]
  /\ UNCHANGED <<config, layout, lastWidth, attached, listening, probe>>
  /\ UNCHANGED <<destroyed, registry, throttled>>

\* setText / setHtml leaving through the TypeError of validateString, which
\* is thrown before any field is assigned
setContentThrows(v, opName) ==
  /\ last' = [op |-> opName, len |-> -1, arg |-> v.t, threw |-> TRUE]
  /\ UNCHANGED <<config, layout, contentType, chunks, cache, pointer,
                 visibleIndexes, lastWidth, attached, listening, scrollTop,
                 fillers, probe>>
  /\ UNCHANGED <<destroyed, registry, throttled>>

\* setText(str = '') called with the value v
SetText(v) ==
  LET r == validateString(IF v.t = "undefined" THEN StringValue(<< >>) ELSE v)
  IN IF r.threw
       THEN setContentThrows(v, "setText")
       ELSE setContent(v, r.str, splitString(r.str, chunkLength), TEXT_TYPE, "setText")

\* setHtml(html) called with the value v
SetHtml(v) ==
  LET r == validateString(v)
  IN IF r.threw
       THEN setContentThrows(v, "setHtml")
       ELSE setContent(v, r.str, splitHtml(r.str, chunkLength), HTML_TYPE, "setHtml")

\* renderTo(el) with a container
RenderTo ==
  /\ attached' = TRUE
  /\ lastWidth' = elWidth
  /\ Store(IF Len(chunks) > 0
             THEN updateContent(Self, mode, threshold, elWidth, lineHeight)
             ELSE Self)
  /\ last' = [op |-> "renderTo"]
  /\ UNCHANGED <<config, layout, contentType, pointer, listening, scrollTop, probe>>
  /\ UNCHANGED <<destroyed, registry, throttled>>

\* height of the content of this.el under the current layout: the fillers
\* plus the lines taken by the materialized chunks
contentHeight ==
  SumDefined(fillers) + CeilDiv(Len(visibleIndexes), elWidth) * lineHeight

\* the values scrollableEl.scrollTop can take: when the render surface is
\* its own scrollable (elOffset = 0) it cannot scroll past its content; an
\* ancestor scrollable holds other content too
ScrollPositions ==
  IF elOffset = 0 THEN 0..Min(MaxScroll, contentHeight) ELSE 0..MaxScroll

\* scrollableEl.scrollTop after updateContentWithReplace emptied this.el:
\* a render surface that is its own scrollable has nothing left to scroll
clearedScrollTop(st, off) == IF off = 0 THEN 0 ELSE st

\* the tail of onScroll without the setScrollTop(scrollTop) call
keptScrollTop(m, saved, current) == current

\* the tail of onScroll: if (this.mode !== APPEND_MODE) setScrollTop(scrollTop)
restoredScrollTop(m, saved, current) == IF m # APPEND_MODE THEN saved ELSE current

\* the scrollable can be scrolled from scrollTop to another position pos,
\* and the scroll listener of the instance is notified of it
CanScrollTo(pos) ==
  /\ attached
  /\ listening
  /\ pos \in ScrollPositions
  /\ pos # scrollTop

\* the body of onScroll(e), run while scrollableEl.scrollTop is pos
onScroll(pos) ==
  /\ LET prevPointer == pointer
         nextPointer == getCurrentPointer(offsets, getScrollTopForChunks(pos, elOffset))
         need == needUpdate(mode, threshold, Len(chunks), visibleIndexes,
                            prevPointer, nextPointer)
     IN /\ pointer' = nextPointer
        /\ lastWidth' = elWidth
        /\ Store(IF need
                   THEN updateContent(Self, mode, threshold, elWidth, lineHeight)
                   ELSE Self)
        /\ scrollTop' = IF need
                          THEN restoredScrollTop(mode, pos,
                                 IF mode = APPEND_MODE THEN pos
                                 ELSE clearedScrollTop(pos, elOffset))
                          ELSE pos
        /\ listening' = (need \/ listening)
        /\ last' = [op |-> "onScroll", need |-> need, scrollTop |-> pos,
                    wrote |-> need /\ mode # APPEND_MODE]
  /\ UNCHANGED <<config, layout, contentType, attached, probe>>
  /\ UNCHANGED <<destroyed, registry>>

\* the scrollable is scrolled to pos and the body of onScroll runs at once
OnScroll(pos) ==
  /\ CanScrollTo(pos)
  /\ onScroll(pos)
  /\ UNCHANGED throttled

\* the environment lays the render surface out anew (resize, restyle)
Relayout(w, h) ==
  /\ attached
  /\ <<w, h>> # <<elWidth, lineHeight>>
  /\ elWidth' = w
  /\ lineHeight' = h
  /\ UNCHANGED <<config, contentType, chunks, cache, pointer, visibleIndexes,
                 lastWidth, attached, listening, scrollTop, fillers, last, probe>>
  /\ UNCHANGED <<destroyed, registry, throttled>>

Next ==
  \/ \E str \in TextContents : SetText(StringValue(str))
  \/ \E html \in HtmlContents : SetHtml(StringValue(html))
  \/ RenderTo
  \/ \E pos \in 0..MaxScroll : OnScroll(pos)
  \/ \E w \in Widths, h \in LineHeights : Relayout(w, h)

Spec == Init /\ [][Next]_vars

(* ----------------------- a throwing preprocessor ----------------------- *)
\* the number of chunks updateContent() would materialize on the record d
rebuildSize(d, m, t) ==
  IF m = APPEND_MODE
    THEN Max(Min(t, Len(d.chunks)) - (getLastVisible(d.visibleIndexes) + 1), 0)
    ELSE ChunkRange(0, Len(d.chunks), t)[2] - ChunkRange(0, Len(d.chunks), t)[1]

\* updateContent() on the record d when preprocessChunk throws on the k-th
\* (0-based) chunk of the rebuild: the chunks before it are materialized
\* and recorded; in replace mode el was emptied and holds the top filler,
\* the bottom filler is never added
updateContentThrowing(d, m, t, w, h, k) ==
  IF m = APPEND_MODE
    THEN LET first == getLastVisible(d.visibleIndexes) + 1
         IN appendLoop(d, first, first + k, w, h)
    ELSE LET range == ChunkRange(0, Len(d.chunks), t)
             preFillerHeight == getChunkOffsetTop(d.offsets, range[1])
             cleared == [d EXCEPT !.visibleIndexes = << >>]
             built == replaceLoop(cleared, range[1], range[1] + k, 0,
                                  preFillerHeight, w, h)
         IN [built EXCEPT !.fillers = <<preFillerHeight>>]

\* the scrollable is scrolled to pos and the body of onScroll runs, the
\* chunk preprocessor throwing on the k-th chunk of the rebuild: the
\* exception leaves onScroll after stopScrollTracking() and before focus(),
\* setScrollTop() and startScrollTracking()
OnScrollThrows(pos, k) ==
  /\ CanScrollTo(pos)
  /\ chunkPreProcessor # CHUNK_PREPROCESSOR
  /\ LET prevPointer == pointer
         nextPointer == getCurrentPointer(offsets, getScrollTopForChunks(pos, elOffset))
         need == needUpdate(mode, threshold, Len(chunks), visibleIndexes,
                            prevPointer, nextPointer)
     IN /\ need
        /\ k < rebuildSize(Self, mode, threshold)
        /\ pointer' = nextPointer
        /\ lastWidth' = elWidth
        /\ Store(updateContentThrowing(Self, mode, threshold, elWidth, lineHeight, k))
        /\ scrollTop' = IF mode = APPEND_MODE THEN pos
                          ELSE clearedScrollTop(pos, elOffset)
        /\ listening' = FALSE
        /\ last' = [op |-> "onScroll", need |-> need, scrollTop |-> pos,
                    wrote |-> FALSE, threw |-> TRUE]
  /\ UNCHANGED <<config, layout, contentType, attached, probe>>
  /\ UNCHANGED <<destroyed, registry, throttled>>

\* chunk preprocessors an instance is constructed with
PreProcessors == {CHUNK_PREPROCESSOR, "function"}

InitFail ==
  /\ \E preProcessor \in PreProcessors : Construct(ONSCROLL_TIMEOUT, preProcessor)
  /\ chunkLength = 1
  /\ elWidth = 1
  /\ lineHeight = 1

NextFail ==
  \/ \E str \in TextContents : SetText(StringValue(str))
  \/ RenderTo
  \/ \E pos \in 0..MaxScroll : OnScroll(pos)
  \/ \E pos \in 0..MaxScroll, k \in 0..(2 * MaxThreshold - 1) : OnScrollThrows(pos, k)

FailSpec == InitFail /\ [][NextFail]_vars

(* --------------------------- instance tracker -------------------------- *)
\* arr.indexOf(x): 0-based index of the first x, -1 when absent
indexOf(arr, x) ==
  IF \E k \in 1..Len(arr) : arr[k] = x
    THEN (CHOOSE k \in 1..Len(arr) : arr[k] = x /\ \A j \in 1..(k - 1) : arr[j] # x) - 1
    ELSE -1

\* arr.splice(i, 1): a negative start counts back from the end of the array
splice(arr, i) ==
  LET start == IF i < 0 THEN Max(Len(arr) + i, 0) ELSE Min(i, Len(arr))
  IN [k \in 1..(Len(arr) - (IF start < Len(arr) THEN 1 ELSE 0)) |->
        IF k <= start THEN arr[k] ELSE arr[k + 1]]

\* trackInstance() of instance id: the registry afterwards (unchanged when
\* it throws 'Already tracked')
trackInstance(arr, id) ==
  IF indexOf(arr, id) # -1 THEN arr ELSE Append(arr, id)

\* the registry after the last statement of destroy() of instance id
untrackInstance(arr, id) ==
  IF trackInstances THEN splice(arr, indexOf(arr, id)) ELSE arr

\* startTracking() that starts a sweep on every call
StartTrackingAgain ==
  /\ instanceTrackerTimer' = intervals + 1
  /\ intervals' = intervals + 1
  /\ trackInstances' = TRUE
  /\ track' = [op |-> "startTracking", ret |-> TRUE]
  /\ intervals < 2
  /\ UNCHANGED <<instances, others, destroyed, throttled>>
  /\ UNCHANGED <<config, layout, contentType, chunks, cache, pointer,
                 visibleIndexes, lastWidth, attached, listening, scrollTop,
                 fillers, last, probe>>

\* VirtualContent.startTracking()
StartTracking ==
  /\ IF instanceTrackerTimer # 0
       THEN /\ track' = [op |-> "startTracking", ret |-> FALSE]
            /\ UNCHANGED <<instanceTrackerTimer, intervals, trackInstances>>
       ELSE /\ instanceTrackerTimer' = intervals + 1
            /\ intervals' = intervals + 1
            /\ trackInstances' = TRUE
            /\ track' = [op |-> "startTracking", ret |-> TRUE]
  /\ UNCHANGED <<instances, others, destroyed, throttled>>
  /\ UNCHANGED <<config, layout, contentType, chunks, cache, pointer,
                 visibleIndexes, lastWidth, attached, listening, scrollTop,
                 fillers, last, probe>>

\* new VirtualContent() creating the instance id
Create(id) ==
  /\ others[id].state = "none"
  /\ others' = [others EXCEPT ![id] = [state |-> "live", lastWidth |-> Undef]]
  /\ instances' = IF trackInstances THEN trackInstance(instances, id) ELSE instances
  /\ UNCHANGED <<trackInstances, instanceTrackerTimer, intervals, track,
                 destroyed, throttled>>
  /\ UNCHANGED <<config, layout, contentType, chunks, cache, pointer,
                 visibleIndexes, lastWidth, attached, listening, scrollTop,
                 fillers, last, probe>>

\* destroy() of the instance id
Destroy(id) ==
  /\ IF id = SelfId
       THEN /\ ~destroyed
            /\ destroyed' = TRUE
            /\ listening' = FALSE
            /\ fillers' = << >>
            /\ chunks' = << >>
            /\ heights' = << >>
            /\ visibleIndexes' = << >>
            /\ leftPads' = << >>
            /\ attached' = FALSE
            /\ last' = [op |-> "destroy"]
            /\ UNCHANGED others
       ELSE /\ others[id].state = "live"
            /\ others' = [others EXCEPT ![id].state = "destroyed"]
            /\ UNCHANGED <<destroyed, listening, fillers, chunks, heights,
                           visibleIndexes, leftPads, attached, last>>
  /\ instances' = untrackInstance(instances, id)
  /\ UNCHANGED <<trackInstances, instanceTrackerTimer, intervals, track, throttled>>
  /\ UNCHANGED <<config, layout, contentType, offsets, pointer, lastWidth,
                 scrollTop, probe>>

\* the registry holds the instance id
Tracked(id) == indexOf(instances, id) # -1

\* the interval callback of startTracking: every registered instance whose
\* el.offsetWidth differs from its lastWidth stores the new width (the el
\* of an instance that was never rendered is 0 wide)
Sweep ==
  /\ instanceTrackerTimer # 0
  /\ others' = [id \in 1..MaxInstances |->
                  IF Tracked(id) /\ others[id].lastWidth # 0
                    THEN [others[id] EXCEPT !.lastWidth = 0]
                    ELSE others[id]]
  /\ lastWidth' = IF Tracked(SelfId) /\ attached THEN elWidth ELSE lastWidth
  /\ UNCHANGED <<trackInstances, instances, instanceTrackerTimer, intervals,
                 track, destroyed, throttled>>
  /\ UNCHANGED <<config, layout, contentType, chunks, cache, pointer,
                 visibleIndexes, attached, listening, scrollTop, fillers,
                 last, probe>>

InitTrack ==
  /\ Init
  /\ mode = REPLACE_MODE
  /\ threshold = 1
  /\ chunkLength = 1
  /\ elOffset = 0
  /\ elWidth = 1
  /\ lineHeight = 1

NextTrack ==
  \/ StartTracking
  \/ \E id \in 1..MaxInstances : Create(id)
  \/ \E id \in 0..MaxInstances : Destroy(id)
  \/ Sweep

TrackSpec == InitTrack /\ [][NextTrack]_vars

(* --------------------------- update scheduler -------------------------- *)
\* throttle: the record of an execution of func, at time now, through via,
\* with the arguments arg, after the notification notified
executed(via, arg, notified) ==
  [via |-> via, at |-> now, arg |-> arg,
   gap |-> IF exec.at = Undef THEN Undef ELSE now - exec.at,
   notified |-> notified, afterDestroy |-> destroyed]

\* throttle: a call executes func whatever time remains
leadingAlways(remaining, wait) == TRUE

\* throttle: remaining <= 0 || remaining > wait
leading(remaining, wait) == remaining <= 0 \/ remaining > wait

\* throttle: args kept from the first call of a burst
argsOfFirst(old, new) == IF old = Undef THEN new ELSE old

\* throttle: args = arguments
argsOf(old, new) == new

\* the function throttle returns, called by the scroll listener with the
\* event of a scroll to pos; func is the body of onScroll
ThrottledOnScroll(pos) ==
  /\ CanScrollTo(pos)
  /\ now + renderDelay <= StartTime + MaxElapsed
  /\ LET remaining == renderDelay - (now - previous)
     IN IF leading(remaining, renderDelay)
          THEN /\ timeout' = Undef
               /\ previous' = now
               /\ onScroll(pos)
               /\ args' = Undef
               /\ exec' = executed("call", argsOf(args, pos), pos)
          ELSE /\ timeout' = IF timeout = Undef THEN now + remaining ELSE timeout
               /\ args' = argsOf(args, pos)
               /\ scrollTop' = pos
               /\ exec' = [exec EXCEPT !.notified = pos]
               /\ UNCHANGED <<previous, pointer, lastWidth, chunks, cache,
                              visibleIndexes, fillers, listening, last>>
               /\ UNCHANGED <<config, layout, contentType, attached, probe>>
               /\ UNCHANGED <<destroyed, registry>>
  /\ UNCHANGED <<renderDelay, now>>

\* throttle: the timer callback later; on a destroyed instance the body of
\* onScroll throws at its first statement, reading scrollableEl.scrollTop of
\* null, and later does not reach its last statement
Later ==
  /\ timeout # Undef
  /\ now >= timeout
  /\ previous' = now
  /\ timeout' = Undef
  /\ exec' = executed("later", args, exec.notified)
  /\ IF destroyed
       THEN /\ UNCHANGED args
            /\ UNCHANGED <<pointer, lastWidth, chunks, cache, visibleIndexes,
                           fillers, listening, last, scrollTop>>
            /\ UNCHANGED <<config, layout, contentType, attached, probe>>
            /\ UNCHANGED <<destroyed, registry>>
       ELSE /\ args' = Undef
            /\ onScroll(scrollTop)
  /\ UNCHANGED <<renderDelay, now>>

\* time passes
Tick ==
  /\ now < StartTime + MaxElapsed
  /\ now' = now + 1
  /\ UNCHANGED <<renderDelay, previous, timeout, args, exec>>
  /\ UNCHANGED <<config, layout, contentType, chunks, cache, pointer,
                 visibleIndexes, lastWidth, attached, listening, scrollTop,
                 fillers, last, probe, destroyed, registry>>

InitThrottle ==
  /\ \E delay \in 1..MaxDelay : Construct(delay, CHUNK_PREPROCESSOR)
  /\ threshold = 1
  /\ chunkLength = 1
  /\ elOffset = 0
  /\ elWidth = 1
  /\ lineHeight = 1

NextThrottle ==
  \/ \E pos \in 0..MaxScroll : ThrottledOnScroll(pos)
  \/ Later
  \/ Tick
  \/ Destroy(SelfId)
  \/ (~destroyed /\ SetText(StringValue(LongText)))
  \/ (~destroyed /\ RenderTo)

ThrottleSpec == InitThrottle /\ [][NextThrottle]_vars

\* the timer of a pending trailing call fires once its delay has passed
FairThrottleSpec == ThrottleSpec /\ WF_vars(Tick) /\ WF_vars(Later)

(* ------------------ one instance fed arbitrary values ------------------ *)
InitArg ==
  /\ Init
  /\ threshold = 1
  /\ chunkLength = 1
  /\ elOffset = 0
  /\ elWidth = 1
  /\ lineHeight = 1

NextArg ==
  \/ \E v \in ArgValues : SetText(v)
  \/ \E v \in ArgValues : SetHtml(v)
  \/ RenderTo
  \/ \E pos \in 0..MaxScroll : OnScroll(pos)

ArgSpec == InitArg /\ [][NextArg]_vars

(* --------------------------- function probes --------------------------- *)
machine == <<mode, threshold, chunkLength, contentType, chunks, heights, offsets,
             leftPads, pointer, visibleIndexes, lastWidth, attached, listening,
             scrollTop, fillers, elOffset, elWidth, lineHeight, last,
             destroyed, trackInstances, instances, instanceTrackerTimer,
             intervals, others, track, renderDelay, now, previous, timeout,
             args, exec, chunkPreProcessor>>

\* splitString(str, len) applied to a probe input
ProbeSplitString(str, len) ==
  /\ probe.fn = "none"
  /\ probe' = [fn |-> "splitString", str |-> str, len |-> len,
               out |-> splitString(str, len)]
  /\ UNCHANGED machine

\* splitHtml(str, len) applied to a probe input
ProbeSplitHtml(str, len) ==
  /\ probe.fn = "none"
  /\ probe' = [fn |-> "splitHtml", str |-> str, len |-> len,
               out |-> splitHtml(str, len)]
  /\ UNCHANGED machine

\* getChunkRangeForReplacement(p) on an instance with n chunks and threshold t
ProbeRange(p, n, t) ==
  /\ probe.fn = "none"
  /\ probe' = [fn |-> "range", p |-> p, n |-> n, t |-> t,
               out |-> ChunkRange(p, n, t)]
  /\ UNCHANGED machine

\* the height caches of an instance with n chunks in replace mode: a
\* measured prefix of the chunks, each height one of the line heights
HeightCaches(n) == UNION {[1..k -> LineHeights] : k \in 0..n}

\* getChunkOffsetTopByHeights(idx) on an instance with n chunks and the
\* height cache hs
ProbeOffsetByHeights(hs, n, idx) ==
  /\ probe.fn = "none"
  /\ probe' = [fn |-> "offsetByHeights", hs |-> hs, n |-> n, idx |-> idx,
               out |-> getChunkOffsetTopByHeights(hs, idx)]
  /\ UNCHANGED machine

InitPure ==
  /\ Init
  /\ mode = REPLACE_MODE
  /\ threshold = 1
  /\ chunkLength = 1
  /\ elOffset = 0
  /\ elWidth = 1
  /\ lineHeight = 1

NextPure ==
  \/ \E str \in ProbeStrings \cup {ExampleString},
        len \in (1..MaxProbeChunkLen) \cup {5} : ProbeSplitString(str, len)
  \/ \E str \in ProbeStrings, len \in 1..MaxProbeChunkLen : ProbeSplitHtml(str, len)
  \/ \E p \in -1..MaxProbeChunks, n \in 0..MaxProbeChunks, t \in 1..MaxProbeThreshold :
       ProbeRange(p, n, t)
  \/ \E n \in 0..MaxCachedChunks :
       \E hs \in HeightCaches(n), idx \in 0..(n + 1) : ProbeOffsetByHeights(hs, n, idx)

PureSpec == InitPure /\ [][NextPure]_vars

(* ======================= properties: the splitter ====================== *)
\* the indexes start..end-1 of a range, in ascending order
RangeIndexes(r) == [k \in 1..Max(r[2] - r[1], 0) |-> r[1] + k - 1]

\* the chunk ends inside a tag: its last '<' comes after its last '>'
EndsInTag(chunk) == lastIndexOf(chunk, "<") > lastIndexOf(chunk, ">")

\* C2: for every pointer p, threshold t >= 1 and chunk count n the replace
\* range [start, end) has start >= 0, end <= n and spans min(2t, n) chunks
\* whenever n >= 2t; n = 10, t = 2 gives [0, 4) for p = 0 and [6, 10) for p = 9.
C2_RangeClamped ==
  probe.fn = "range" =>
    /\ probe.out[1] >= 0
    /\ probe.out[2] <= probe.n
    /\ probe.n >= 2 * probe.t =>
         probe.out[2] - probe.out[1] = Min(2 * probe.t, probe.n)
    /\ (probe.n = 10 /\ probe.t = 2 /\ probe.p = 0) => probe.out = <<0, 4>>
    /\ (probe.n = 10 /\ probe.t = 2 /\ probe.p = 9) => probe.out = <<6, 10>>

\* C2 witness: the range for p = 9, n = 10, t = 2 was computed, compensated
\* at the upper edge
C2_Witness ==
  /\ probe.fn = "range"
  /\ probe.n = 10 /\ probe.t = 2 /\ probe.p = 9
  /\ probe.out = <<6, 10>>

\* C4: plain splitting returns chunks whose concatenation is the input, every
\* chunk but the last exactly len long;
\* split("0123456789ab", 5) = ["01234", "56789", "ab"].
C4_SplitRoundTrip ==
  probe.fn = "splitString" =>
    /\ Concat(probe.out) = probe.str
    /\ \A k \in 1..(Len(probe.out) - 1) : Len(probe.out[k]) = probe.len
    /\ (probe.str = ExampleString /\ probe.len = 5) =>
         probe.out = << <<"0", "1", "2", "3", "4">>,
                        <<"5", "6", "7", "8", "9">>,
                        <<"a", "b">> >>

\* C4 witness: a string was split into several chunks, the last one short
C4_Witness ==
  /\ probe.fn = "splitString"
  /\ Len(probe.out) >= 3
  /\ Len(probe.out[Len(probe.out)]) < probe.len

\* well-formed markup: every '<' is closed by a '>' before the next '<',
\* and no '>' stands outside a tag
RECURSIVE WellFormedFrom(_, _, _)
WellFormedFrom(str, k, inTag) ==
  IF k > Len(str) THEN ~inTag
  ELSE IF str[k] = "<" THEN ~inTag /\ WellFormedFrom(str, k + 1, TRUE)
  ELSE IF str[k] = ">" THEN inTag /\ WellFormedFrom(str, k + 1, FALSE)
  ELSE WellFormedFrom(str, k + 1, inTag)

WellFormed(str) == WellFormedFrom(str, 1, FALSE)

\* C5: after markup-aware splitting of a (well-formed) markup string no
\* non-final chunk ends with an unclosed tag, i.e. no chunk boundary falls
\* between a '<' and its matching '>'.
C5_BoundarySafe ==
  (probe.fn = "splitHtml" /\ WellFormed(probe.str)) =>
    \A k \in 1..(Len(probe.out) - 1) : ~EndsInTag(probe.out[k])

\* C6: the concatenation of the chunks returned by markup-aware splitting is
\* the input string: repair drops, duplicates and reorders nothing.
C6_HtmlRoundTrip ==
  probe.fn = "splitHtml" => Concat(probe.out) = probe.str

\* C6 witness: markup-aware splitting repaired a boundary: the result is not
\* the plain split, a chunk grew past len and a non-final chunk shrank
C6_Witness ==
  /\ probe.fn = "splitHtml"
  /\ probe.out # splitString(probe.str, probe.len)
  /\ \E k \in 1..Len(probe.out) : Len(probe.out[k]) > probe.len
  /\ \E k \in 1..(Len(probe.out) - 1) : Len(probe.out[k]) < probe.len

(* ==================== properties: the window engine ==================== *)
\* the effective scroll position the last onScroll resolved the pointer at
EffectivePos == getScrollTopForChunks(scrollTop, elOffset)

\* the step is an execution of onScroll (the only operation that records
\* itself as onScroll, and it always moves the scroll position)
ScrollStep == last'.op = "onScroll" /\ scrollTop' # scrollTop

\* C1: in replace mode, after every execution of onScroll on an attached
\* instance, visibleIndexes is exactly the clamped range
\* getChunkRangeForReplacement(pointer) of the pointer just resolved.
C1_WindowFresh ==
  (mode = REPLACE_MODE /\ attached /\ last.op = "onScroll") =>
    visibleIndexes = RangeIndexes(ChunkRange(pointer, Len(chunks), threshold))

\* C3: in append mode, when onScroll resolves pointer p (a chunk index) and
\* the needs-update check is true, afterwards every index in
\* [p, min(p + t, n)) is in visibleIndexes and the check for p is false.
C3_AppendCovers ==
  (mode = APPEND_MODE /\ last.op = "onScroll" /\ last.need /\ pointer >= 0) =>
    /\ \A i \in pointer..(Min(pointer + threshold, Len(chunks)) - 1) :
         ~NotIn(visibleIndexes, i)
    /\ ~needUpdate(mode, threshold, Len(chunks), visibleIndexes, pointer, pointer)

\* C7 (as claimed): setting empty content yields exactly one chunk, the
\* empty string.
C7_OneEmptyChunk ==
  (last.op \in {"setText", "setHtml"} /\ last.len = 0) => chunks = << << >> >>

\* C7 (amended): setting empty content yields zero chunks; the call and a
\* following renderTo complete, materialize no chunk and leave every filler
\* height 0.
C7_NoChunks ==
  /\ (last.op \in {"setText", "setHtml"} /\ last.len = 0) =>
       /\ chunks = << >>
       /\ visibleIndexes = << >>
       /\ \A k \in 1..Len(fillers) : fillers[k] = 0
  /\ (last.op = "renderTo" /\ chunks = << >>) =>
       /\ attached
       /\ visibleIndexes = << >>
       /\ \A k \in 1..Len(fillers) : fillers[k] = 0

\* C7 witness: renderTo ran on an instance whose content was set to the
\* empty text (only setText makes the content type text, only "" gives no
\* chunks)
C7_Witness ==
  /\ last.op = "renderTo"
  /\ contentType = TEXT_TYPE
  /\ chunks = << >>
  /\ attached

\* arr keeps every value it has recorded
Kept(arr, arrNext) ==
  \A k \in 1..Len(arr) : arr[k] # Undef => (Len(arrNext) >= k /\ arrNext[k] = arr[k])

\* C8: geometry is write-once: until content is replaced, a value recorded
\* for an index (height, offset, left indent), whatever it is, 0 included,
\* is never changed by a later measurement.
C8_WriteOnce ==
  [][last'.op \notin {"setText", "setHtml"} =>
       /\ Kept(offsets, offsets')
       /\ Kept(heights, heights')
       /\ Kept(leftPads, leftPads')]_vars

\* no cached offset exceeds the position pos
NoneExceeds(offs, pos) ==
  \A i \in 0..(Len(offs) - 1) : getChunkOffsetTop(offs, i) <= pos

\* C9 (as claimed): when no cached offset exceeds the effective scroll
\* position, the resolver returns the last chunk index n - 1, however many
\* chunks have been measured.
C9_LastChunk ==
  [][(ScrollStep /\ NoneExceeds(offsets, EffectivePos')) =>
       pointer' = Len(chunks) - 1]_vars

\* C9 (amended): when no cached offset exceeds the effective scroll
\* position, the resolver returns offsets.length - 1, the last index of the
\* offset cache.
C9_LastCached ==
  [][(ScrollStep /\ NoneExceeds(offsets, EffectivePos')) =>
       pointer' = Len(offsets) - 1]_vars

\* C9 witness: onScroll resolved the pointer past every cached offset while
\* chunks beyond the cache were still unmeasured (no rebuild followed, so
\* the cache is the one the pointer was resolved against)
C9_Witness ==
  /\ last.op = "onScroll"
  /\ ~last.need
  /\ Len(offsets) > 0
  /\ Len(offsets) < Len(chunks)
  /\ NoneExceeds(offsets, EffectivePos)
  /\ pointer = Len(offsets) - 1

\* the indexes of the cache whose offset is at most pos
AtMost(offs, pos) ==
  {i \in 0..(Len(offs) - 1) : getChunkOffsetTop(offs, i) <= pos}

\* C10: when some cached offset exceeds the effective scroll position, the
\* resolver returns the greatest chunk index whose recorded offset is at
\* most that position.
C10_GreatestAtMost ==
  [][(/\ ScrollStep
      /\ ~NoneExceeds(offsets, EffectivePos')
      /\ AtMost(offsets, EffectivePos') # {}) =>
       /\ pointer' \in AtMost(offsets, EffectivePos')
       /\ \A i \in AtMost(offsets, EffectivePos') : i <= pointer']_vars

(* ===================== properties: content setters ===================== *)
\* the step is a call of setText or setHtml
SetCall == last' # last /\ last'.op \in {"setText", "setHtml"}

\* C11: setText and setHtml fail with a type error, leaving the content
\* sequence, pointer, geometry cache and visible set unchanged, exactly when
\* the argument is neither a string nor a finite number (so NaN, Infinity,
\* true and objects are rejected); finite numbers are stringified and null /
\* undefined become the empty string.
C11_TypeErrors ==
  [][SetCall =>
       /\ last'.threw <=> last'.arg \notin {"string", "number", "null", "undefined"}
       /\ last'.threw => UNCHANGED <<chunks, pointer, cache, visibleIndexes>>
       /\ last'.arg = "number" =>
            Concat(chunks') \in {NumberToString(NumberValue(num)) : num \in ArgNumbers}
       /\ last'.arg \in {"null", "undefined"} => Concat(chunks') = << >>]_vars

\* C12: every successful setText / setHtml resets the pointer to 0 and
\* empties the geometry cache and visible set before any chunk of the new
\* content is materialized: after the call every visible index is below
\* the new chunk count and every geometry entry is a measurement of the new
\* content under the current layout (none at all while detached).
C12_ResetBeforeRebuild ==
  [][(SetCall /\ ~last'.threw) =>
       /\ pointer' = 0
       /\ \A k \in 1..Len(visibleIndexes') : visibleIndexes'[k] < Len(chunks')
       /\ Len(offsets') <= Len(chunks')
       /\ Len(heights') <= Len(chunks')
       /\ Len(leftPads') <= Len(chunks')
       /\ \A i \in 0..(Len(offsets') - 1) :
            ArrGet(offsets', i) = (i \div elWidth) * lineHeight
       /\ \A i \in 0..(Len(heights') - 1) : ArrGet(heights', i) = lineHeight
       /\ \A i \in 0..(Len(leftPads') - 1) : ArrGet(leftPads', i) = 0
       /\ ~attached => (cache' = <<<< >>, << >>, << >>>> /\ visibleIndexes' = << >>)]_vars

\* C12 witness: content was set on an attached instance and a window of
\* the new content, shorter than the longest content, was materialized and
\* measured at a non-zero line height
C12_Witness ==
  /\ last.op \in {"setText", "setHtml"}
  /\ ~last.threw
  /\ attached
  /\ Len(chunks) \in 1..2
  /\ Len(visibleIndexes) = Len(chunks)
  /\ Len(offsets) = Len(chunks)
  /\ lineHeight > 0
  /\ elWidth = 1
  /\ ArrGet(offsets, Len(chunks) - 1) = (Len(chunks) - 1) * lineHeight

(* ===================== properties: replace rebuilds ==================== *)
\* C18: in replace mode, in every reachable state, the number of
\* materialized chunks is at most min(2 * threshold, n).
C18_WindowBounded ==
  mode = REPLACE_MODE =>
    Len(visibleIndexes) <= Min(2 * threshold, Len(chunks))

\* C18 witness: a scroll-triggered rebuild left a full window of 2 * threshold
\* chunks of a longer content
C18_Witness ==
  /\ mode = REPLACE_MODE
  /\ last.op = "onScroll"
  /\ last.need
  /\ Len(visibleIndexes) = 2 * threshold
  /\ Len(chunks) > 2 * threshold

C20_ScrollRestored ==
  last.op = "onScroll" =>
    /\ (mode = REPLACE_MODE /\ last.need) =>
         (last.wrote /\ scrollTop = last.scrollTop)
    /\ mode = APPEND_MODE => ~last.wrote

\* C20 witness: a scroll-triggered rebuild in replace mode on a render
\* surface that is its own scrollable, away from the top
C20_Witness ==
  /\ mode = REPLACE_MODE
  /\ last.op = "onScroll"
  /\ last.need
  /\ elOffset = 0
  /\ last.scrollTop > 0
  /\ scrollTop = last.scrollTop

(* ==================== properties: instance tracker ===================== *)
\* the step is a destroy() of the instance id
DestroyStep(id) ==
  IF id = SelfId THEN ~destroyed /\ destroyed'
  ELSE others[id].state = "live" /\ others'[id].state = "destroyed"

\* C13: destroy() removes from the global registry the destroyed instance
\* and nothing else, whatever the order of creating instances, calling
\* startTracking and destroying instances.
C13_DestroyRemovesSelf ==
  [][\A id \in 0..MaxInstances :
       DestroyStep(id) =>
         instances' = SelectSeq(instances, LAMBDA x : x # id)]_vars

\* the step is a call of startTracking
StartStep == track' # track /\ track'.op = "startTracking"

\* C15: startTracking is idempotent: the first call returns true and starts
\* the sweep, every later call returns false and starts nothing; at most
\* one sweep timer ever exists.
C15_StartOnce ==
  /\ [](intervals <= 1)
  /\ [][StartStep =>
          IF intervals = 0
            THEN track'.ret /\ intervals' = 1 /\ trackInstances'
                 /\ instanceTrackerTimer' # 0
            ELSE ~track'.ret
                 /\ UNCHANGED <<intervals, instanceTrackerTimer, trackInstances,
                                instances, others>>]_vars

\* C15 witness: startTracking was called again after it had started the sweep
C15_Witness ==
  /\ track.op = "startTracking"
  /\ ~track.ret
  /\ intervals = 1
  /\ trackInstances

(* ===================== properties: update scheduler ==================== *)
\* C14: after destroy() has returned, the body of the scroll handler never
\* executes on that instance again; a trailing throttled call pending at
\* destruction does not run against the released state.
C14_NoRunAfterDestroy == ~exec.afterDestroy

\* C16: the throttled scroll handler executes at most once per configured
\* interval: any two executions of the body are at least one interval apart.
C16_OncePerInterval == exec.gap # Undef => exec.gap >= renderDelay

\* C16 witness: a trailing execution ran exactly one interval, of more
\* than one tick, after the execution before it
C16_Witness ==
  /\ exec.via = "later"
  /\ renderDelay > 1
  /\ exec.gap = renderDelay

\* a trailing call is pending
Pending == timeout # Undef

\* the step is a scroll notification (at a position other than the one
\* notified last)
NotifyStep == exec'.notified # exec.notified

\* the step executes the body of the scroll handler
ExecStep == <<exec'.via, exec'.at, exec'.gap>> # <<exec.via, exec.at, exec.gap>>

\* C17: throttling is leading and trailing: the first notification of a
\* burst executes the body at once; notifications within the interval after
\* an execution execute nothing and are coalesced into one pending trailing
\* call, due one interval after that execution; the pending call ends in
\* an execution with the arguments of the most recent notification, and it
\* does end, given that the timer fires.
C17_LeadingAndTrailing ==
  /\ [][
        /\ (NotifyStep /\ ~Pending /\ now - previous >= renderDelay) =>
             (ExecStep /\ exec'.at = now /\ exec'.arg = exec'.notified)
        /\ (NotifyStep /\ now - previous < renderDelay) =>
             (~ExecStep /\ timeout' = previous + renderDelay)
        /\ (Pending /\ ~Pending') =>
             (ExecStep /\ exec'.at = now /\ exec'.arg = exec'.notified)
       ]_vars
  /\ (Pending ~> ~Pending)

\* C17 witness: the trailing call of a burst executed, on a live instance,
\* with the arguments of the last notification, one interval of more than
\* one tick after the leading execution
C17_Witness ==
  /\ exec.via = "later"
  /\ ~exec.afterDestroy
  /\ exec.arg = exec.notified
  /\ exec.arg # Undef
  /\ exec.gap = renderDelay
  /\ renderDelay > 1
  /\ ~Pending

(* ======================== properties: the pointer ====================== *)
\* C25: whenever the content sequence is non-empty, the stored pointer is a
\* valid chunk index, 0 <= pointer <= n - 1, in every state reachable by
\* setText / setHtml, renderTo and scroll events.
C25_PointerValid ==
  Len(chunks) > 0 => (0 <= pointer /\ pointer <= Len(chunks) - 1)

(* =================== properties: the repair of splitHtml =============== *)
\* C24: when markup-aware splitting repairs a chunk that ends in an unclosed
\* tag, the closing fragment it measures and, when pulling back, moves into
\* the current chunk is the prefix of the following chunk up to and
\* including that chunk's first '>'; nothing after that '>' is moved.
\* (Stated for well-formed markup that splits into two raw chunks, where the
\* first chunk of the result is settled by the one repair.)
C24_FirstCloseMoved ==
  LET raw == splitString(probe.str, probe.len)
      openTag == lastIndexOf(raw[1], "<")
      firstClose == indexOf(raw[2], ">") + 1
  IN (/\ probe.fn = "splitHtml"
      /\ WellFormed(probe.str)
      /\ Len(raw) = 2
      /\ EndsInTag(raw[1])
      /\ indexOf(raw[2], ">") # -1) =>
       probe.out[1] = IF firstClose > Len(raw[1]) - openTag
                        THEN Slice(raw[1], 0, openTag)
                        ELSE raw[1] \o Slice(raw[2], 0, firstClose)

(* =================== properties: cumulative offsets ==================== *)
\* C23: getChunkOffsetTopByHeights(index) returns, for every index in
\* [0, n], the sum of the cached heights of the chunks [0, index), an
\* unmeasured chunk counting 0, and fails only when index is beyond the
\* chunk count n.
C23_CumulativeOffset ==
  probe.fn = "offsetByHeights" =>
    /\ probe.out.threw <=> probe.idx > probe.n
    /\ probe.idx <= probe.n =>
         probe.out.value = SumDefined(Slice(probe.hs, 0, probe.idx))

(* ====================== properties: append mode ======================== *)
\* C22: in append mode, between two content replacements, visibleIndexes
\* only grows: no index is removed, none is added twice, and it is always
\* the contiguous ascending prefix 0..k-1 of the chunk indexes.
C22_AppendOnlyGrows ==
  /\ [](mode = APPEND_MODE =>
          /\ visibleIndexes = [k \in 1..Len(visibleIndexes) |-> k - 1]
          /\ Len(visibleIndexes) <= Len(chunks))
  /\ [][(mode = APPEND_MODE /\ last'.op \notin {"setText", "setHtml"}) =>
          /\ Len(visibleIndexes') >= Len(visibleIndexes)
          /\ SubSeq(visibleIndexes', 1, Len(visibleIndexes)) = visibleIndexes]_vars

\* C22 witness: in append mode, scroll events were handled after several
\* chunks had been appended, and they are still all there
C22_Witness ==
  /\ mode = APPEND_MODE
  /\ last.op = "onScroll"
  /\ Len(visibleIndexes) >= 2
  /\ Len(chunks) > Len(visibleIndexes)
  /\ pointer >= 1

(* =================== properties: a failing rebuild ===================== *)
\* C21: scroll listening is always resumed when a scroll-triggered rebuild
\* ends, whether it succeeds or fails: after onScroll, also when the chunk
\* preprocessor threw during the rebuild, the instance is listening for
\* scroll notifications.
C21_ListeningResumed == last.op = "onScroll" => listening

====
